---- MODULE Spec2Model ----
(***************************************************************************)
(* A model of question_004.py: the polynomial calculator.                  *)
(*                                                                         *)
(* Texts are sequences of one-character strings.  A float is modelled by   *)
(* the exact rational it holds, [n |-> numerator, d |-> denominator] in    *)
(* lowest terms; the coefficient literals of the model are dyadic (x.0,    *)
(* x.5, x.50), for which IEEE double arithmetic is exact in the ranges     *)
(* explored, and no literal is zero, so that no negative zero arises.      *)
(* Objects (terms and lists) live in a heap indexed by identity, so that   *)
(* aliasing between operands and results is part of the model.             *)
(***************************************************************************)
EXTENDS Integers, Sequences, FiniteSets, TLC

\* ------------------------------------------------------------------ bounds
MaxPieces == 3      \* pieces concatenated into one input text
MaxTerms  == 2      \* terms of an operand polynomial of the menu loop

\* ------------------------------------------------------------- characters
Digits == <<"0", "1", "2", "3", "4", "5", "6", "7", "8", "9">>

IsDigit(c) == \E k \in 1..10 : Digits[k] = c

DigitVal(c) == (CHOOSE k \in 1..10 : Digits[k] = c) - 1

\* [+-] of REGEX
IsSign(c) == c \in {"+", "-"}

\* \s of REGEX and the whitespace of str.strip(); the alphabet of the model
\* has the space as its only whitespace character
IsSpace(c) == c = " "

\* the character of s at position i, "" past either end
At(s, i) == IF i \in 1..Len(s) THEN s[i] ELSE ""

\* the length of the longest run of digits of s that starts at position p
RECURSIVE DigitRun(_, _)
DigitRun(s, p) == IF IsDigit(At(s, p)) THEN 1 + DigitRun(s, p + 1) ELSE 0

\* s[i .. j-1]
Slice(s, i, j) == SubSeq(s, i, j - 1)

\* --------------------------------------------------------------- floats
Abs(x) == IF x < 0 THEN -x ELSE x

RECURSIVE GCD(_, _)
GCD(a, b) == IF b = 0 THEN a ELSE GCD(b, a % b)

Norm(n, d) == LET g == GCD(Abs(n), d) IN [n |-> n \div g, d |-> d \div g]

\* float + float, float - float, float * float
FAdd(a, b) == Norm(a.n * b.d + b.n * a.d, a.d * b.d)
FSub(a, b) == Norm(a.n * b.d - b.n * a.d, a.d * b.d)
FMul(a, b) == Norm(a.n * b.n, a.d * b.d)

RECURSIVE Pow10(_)
Pow10(k) == IF k = 0 THEN 1 ELSE 10 * Pow10(k - 1)

\* the number written by a sequence of digits
RECURSIVE DigitsVal(_)
DigitsVal(ds) ==
    IF ds = <<>> THEN 0
    ELSE 10 * DigitsVal(SubSeq(ds, 1, Len(ds) - 1)) + DigitVal(ds[Len(ds)])

AllDigits(ds) == \A k \in 1..Len(ds) : IsDigit(ds[k])

\* str.strip(): whitespace removed at both ends
RECURSIVE LStrip(_)
LStrip(s) == IF s # <<>> /\ IsSpace(s[1]) THEN LStrip(Tail(s)) ELSE s

RECURSIVE RStrip(_)
RStrip(s) ==
    IF s # <<>> /\ IsSpace(s[Len(s)]) THEN RStrip(SubSeq(s, 1, Len(s) - 1)) ELSE s

Strip(s) == LStrip(RStrip(s))

NoFloat == [ok |-> FALSE, val |-> [n |-> 0, d |-> 1]]

\* float(text): surrounding whitespace, an optional sign, then digits with
\* at most one point and at least one digit; anything else is a ValueError
\* (ok = FALSE).  Exponent notation, underscores, inf and nan need letters
\* the alphabet of the model does not have.
\* ... the integer part ip and the fraction part fp
FloatOfParts(neg, ip, fp) ==
    IF AllDigits(ip) /\ AllDigits(fp) /\ Len(ip) + Len(fp) >= 1
    THEN [ok |-> TRUE,
          val |-> Norm((IF neg THEN -1 ELSE 1)
                           * (DigitsVal(ip) * Pow10(Len(fp)) + DigitsVal(fp)),
                       Pow10(Len(fp)))]
    ELSE NoFloat

\* ... the text after the sign, split at its point
FloatOfBody(neg, body) ==
    LET dots == {k \in 1..Len(body) : body[k] = "."}
    IN  IF dots = {} THEN FloatOfParts(neg, body, <<>>)
        ELSE IF Cardinality(dots) > 1 THEN NoFloat
        ELSE FloatOfParts(neg,
                          SubSeq(body, 1, (CHOOSE k \in dots : TRUE) - 1),
                          SubSeq(body, (CHOOSE k \in dots : TRUE) + 1, Len(body)))

\* ... the stripped text
FloatOfStripped(t) ==
    IF t # <<>> /\ IsSign(t[1]) THEN FloatOfBody(t[1] = "-", Tail(t))
    ELSE FloatOfBody(FALSE, t)

StrToFloat(text) == FloatOfStripped(Strip(text))

\* the decimal digits of a natural number
RECURSIVE NatStr(_)
NatStr(k) == IF k < 10 THEN <<Digits[k + 1]>>
             ELSE NatStr(k \div 10) \o <<Digits[(k % 10) + 1]>>

\* the digits after the point of r/d, r < d, until the remainder is zero
RECURSIVE FracStr(_, _)
FracStr(r, d) ==
    IF r = 0 THEN <<>>
    ELSE <<Digits[((r * 10) \div d) + 1]>> \o FracStr((r * 10) % d, d)

\* str(float) for magnitudes in [1e-4, 1e16), where Python prints no exponent
FloatStr(v) ==
    LET m == Abs(v.n)
        f == FracStr(m % v.d, v.d)
    IN  (IF v.n < 0 THEN <<"-">> ELSE <<>>)
        \o NatStr(m \div v.d) \o <<".">> \o (IF f = <<>> THEN <<"0">> ELSE f)

\* ------------------------------------------------------- the term pattern
NoMatch == [ok |-> FALSE, end |-> 0, sub |-> <<>>, sign |-> <<>>,
            number |-> <<>>, exponent |-> <<>>]

\* The ways the group of REGEX matches s from position i, as the lengths the
\* quantifiers take: sl of [+-]?, wl of \s?, n1 and n2 of the two [0-9]+ of
\* the number, between which the unescaped . takes any one character, and n3
\* of the exponent's [0-9]+ after the literal x^.
GroupCandidates(s, i) ==
    UNION {
        LET p == i + sw[1] + sw[2]
        IN  UNION {
                LET q == p + n[1] + 1 + n[2]
                IN  {[sl |-> sw[1], wl |-> sw[2], n1 |-> n[1], n2 |-> n[2], n3 |-> n3] :
                        n3 \in IF At(s, q) = "x" /\ At(s, q + 1) = "^"
                               THEN 1..DigitRun(s, q + 2) ELSE {}}
                : n \in {m \in (1..DigitRun(s, p)) \X (1..Len(s)) :
                            /\ p + m[1] <= Len(s)
                            /\ m[2] <= DigitRun(s, p + m[1] + 1)}}
        : sw \in {m \in (0..1) \X (0..1) :
                    /\ m[1] = 1 => IsSign(At(s, i))
                    /\ m[2] = 1 => IsSpace(At(s, i + m[1]))}}

\* the order in which the backtracking matcher tries them: every quantifier
\* is greedy, so the longer choice of an earlier quantifier comes first
TriedBefore(a, b) ==
    LET va == <<a.sl, a.wl, a.n1, a.n2, a.n3>>
        vb == <<b.sl, b.wl, b.n1, b.n2, b.n3>>
    IN  \E k \in 1..5 : va[k] > vb[k] /\ \A j \in 1..(k - 1) : va[j] = vb[j]

\* what the groups capture when the group matches s from i with lengths c
Captures(s, i, c) ==
    LET p == i + c.sl + c.wl
        q == p + c.n1 + 1 + c.n2
    IN  [ok |-> TRUE, end |-> q + 2 + c.n3,
         sub |-> Slice(s, i, q + 2 + c.n3),
         sign |-> Slice(s, i, p),
         number |-> Slice(s, p, q),
         exponent |-> Slice(s, q + 2, q + 2 + c.n3)]

\* the first tried of the candidates cs
FirstTried(s, i, cs) ==
    IF cs = {} THEN NoMatch
    ELSE Captures(s, i, CHOOSE c \in cs : \A o \in cs \ {c} : TriedBefore(c, o))

\* one iteration of the group at position i
MatchGroup(s, i) == FirstTried(s, i, GroupCandidates(s, i))

\* ( ... )+ from position i, given the iteration m already matched: the
\* group is repeated as long as it matches where the previous iteration
\* ended, and the groups keep the captures of the last iteration only
RECURSIVE RepeatGroup(_, _)

Repeated(s, m, next) == IF next.ok THEN RepeatGroup(s, next) ELSE m

RepeatGroup(s, m) == Repeated(s, m, MatchGroup(s, m.end))

Repetition(s, m) == IF m.ok THEN RepeatGroup(s, m) ELSE NoMatch

MatchREGEX(s, i) == Repetition(s, MatchGroup(s, i))

\* re.findall(REGEX, s): the non-overlapping matches, scanning from the left
RECURSIVE FindAllFrom(_, _)

Scanned(s, i, m) ==
    IF m.ok THEN <<m>> \o FindAllFrom(s, m.end) ELSE FindAllFrom(s, i + 1)

FindAllFrom(s, i) == IF i > Len(s) THEN <<>> ELSE Scanned(s, i, MatchREGEX(s, i))

findall(s) == FindAllFrom(s, 1)

\* str.replace(sub, ''): every non-overlapping occurrence of sub removed
RECURSIVE Remove(_, _)
Remove(s, sub) ==
    IF sub = <<>> \/ Len(s) < Len(sub) THEN s
    ELSE IF SubSeq(s, 1, Len(sub)) = sub
         THEN Remove(SubSeq(s, Len(sub) + 1, Len(s)), sub)
         ELSE <<s[1]>> \o Remove(Tail(s), sub)

\* ------------------------------------------------------------ term values
\* PolynomialTerm.__init__ with the two property setters: the number is
\* float(sign.strip() + str(number)), the exponent is the text, stripped.
\* ok = FALSE is the ValueError of float().
TermOf(f, exponent) == [ok |-> f.ok, number |-> f.val, exponent |-> exponent]

PolynomialTerm(sign, number, exponent) ==
    TermOf(StrToFloat(Strip(sign) \o number), Strip(exponent))

\* PolynomialTerm.__str__
Term_str(t) ==
    (IF t.number.n >= 0 THEN <<"+">> ELSE <<>>)
    \o FloatStr(t.number) \o <<"x", "^", "1">> \o t.exponent

\* Polynomial.__str__ of a sequence of term values: ' '.join
RECURSIVE Polynomial_str(_)
Polynomial_str(ts) ==
    IF ts = <<>> THEN <<>>
    ELSE IF Len(ts) = 1 THEN Term_str(ts[1])
    ELSE Term_str(ts[1]) \o <<" ">> \o Polynomial_str(Tail(ts))

\* --------------------------------------------------------- parse_polynomial
\* the loop over the matches from the k-th on: expression is the working
\* text, terms the terms built so far
RECURSIVE ParseLoop(_, _, _, _)

\* the body of the loop once the match is deleted (rest) and the term t built
ParseStep(matches, k, rest, terms, t) ==
    IF ~t.ok
    THEN [outcome |-> "ValueError", message |-> "float", residue |-> rest,
          terms |-> <<>>]
    ELSE ParseLoop(matches, k + 1, rest,
                   Append(terms, [number |-> t.number, exponent |-> t.exponent]))

ParseMatch(m, matches, k, expression, terms) ==
    ParseStep(matches, k, Strip(Remove(expression, m.sub)), terms,
              PolynomialTerm(m.sign, m.number, m.exponent))

ParseLoop(matches, k, expression, terms) ==
    IF k > Len(matches)
    THEN IF expression # <<>>
         THEN [outcome |-> "ParseError", message |-> "Unrecognized",
               residue |-> expression, terms |-> <<>>]
         ELSE [outcome |-> "ok", message |-> "", residue |-> <<>>, terms |-> terms]
    ELSE ParseMatch(matches[k], matches, k, expression, terms)

Parse(matches, expression) ==
    IF matches = <<>>
    THEN [outcome |-> "ParseError", message |-> "No terms found",
          residue |-> <<>>, terms |-> <<>>]
    ELSE ParseLoop(matches, 1, expression, <<>>)

parse_polynomial(expression) == Parse(findall(expression), expression)

\* ------------------------------------------------------------------- heap
\* An object is a PolynomialTerm (number, exponent) or a Python list (items:
\* the identities of its elements).  A Polynomial is never changed after
\* __init__ binds self.terms, so it is modelled by the identity of its list.
ZeroFloat == [n |-> 0, d |-> 1]

TermObject(number, exponent) ==
    [kind |-> "term", number |-> number, exponent |-> exponent, items |-> <<>>]

ListObject(items) ==
    [kind |-> "list", number |-> ZeroFloat, exponent |-> <<>>, items |-> items]

\* the list object of the default argument terms=[], made once when the
\* class body runs and shared by every Polynomial() built without argument
DefaultTerms == 0

\* Python's None, as an index or a reference
None == -1

\* the identity given to the next object: the lowest one not in use
Fresh(h) == CHOOSE i \in 0..Cardinality(DOMAIN h) :
                i \notin DOMAIN h /\ \A j \in 0..(i - 1) : j \in DOMAIN h

New(h, obj) == LET id == Fresh(h) IN [heap |-> h @@ (id :> obj), ref |-> id]

\* the term values of the list l, in order
TermsOf(h, l) ==
    [k \in 1..Len(h[l].items) |->
        [number |-> h[h[l].items[k]].number, exponent |-> h[h[l].items[k]].exponent]]

\* a new list holding new term objects for the term values ts
RECURSIVE NewTerms(_, _, _)
NewTerms(h, ts, items) ==
    IF ts = <<>> THEN New(h, ListObject(items))
    ELSE LET t == New(h, TermObject(Head(ts).number, Head(ts).exponent))
         IN  NewTerms(t.heap, Tail(ts), Append(items, t.ref))

\* what stays once the objects reachable from no root are freed
Collect(h, roots) ==
    LET live == roots \cup UNION {{h[r].items[k] : k \in 1..Len(h[r].items)} : r \in roots}
    IN  [id \in (DOMAIN h) \cap live |-> h[id]]

\* --------------------------------------------------------- term arithmetic
\* Each returns [heap, ref, raised]: raised is the ValueError, ref the new
\* term.  The new term goes through PolynomialTerm.__init__, which formats
\* the float and reads it back.
Raise(h) == [heap |-> h, ref |-> None, raised |-> TRUE]

Return(o) == [heap |-> o.heap, ref |-> o.ref, raised |-> FALSE]

Allocate(h, t) ==
    IF t.ok THEN Return(New(h, TermObject(t.number, t.exponent))) ELSE Raise(h)

Construct(h, sign, number, exponent) ==
    Allocate(h, PolynomialTerm(sign, FloatStr(number), exponent))

\* PolynomialTerm.__add__
Term_add(h, a, b) ==
    IF h[a].exponent # h[b].exponent
    THEN Raise(h)
    ELSE Construct(h, <<>>, FAdd(h[a].number, h[b].number), h[a].exponent)

\* __sub__ without its guard on the exponents
Term_sub_unguarded(h, a, b) ==
    Construct(h, <<>>, FSub(h[a].number, h[b].number), h[a].exponent)

\* PolynomialTerm.__sub__
Term_sub(h, a, b) ==
    IF h[a].exponent # h[b].exponent
    THEN Raise(h)
    ELSE Construct(h, <<>>, FSub(h[a].number, h[b].number), h[a].exponent)

\* PolynomialTerm.__mul__: the exponents are texts, and + concatenates them
Term_mul(h, a, b) ==
    Construct(h, <<>>, FMul(h[a].number, h[b].number), h[a].exponent \o h[b].exponent)

\* -------------------------------------------------------------- Polynomial
\* contains_exponent returning False from inside its loop: only the first
\* term is looked at
contains_exponent_first(h, l, exponent) ==
    h[l].items # <<>> /\ h[h[l].items[1]].exponent = exponent

\* Polynomial.contains_exponent, on the list l
contains_exponent(h, l, exponent) ==
    \E k \in 1..Len(h[l].items) : h[h[l].items[k]].exponent = exponent

\* Polynomial.exponent_index: the first position, counted from 0, or None
exponent_index(h, l, exponent) ==
    LET ks == {k \in 1..Len(h[l].items) : h[h[l].items[k]].exponent = exponent}
    IN  IF ks = {} THEN None ELSE (CHOOSE k \in ks : \A j \in ks : k <= j) - 1

\* Python's truth value of an index: None and 0 are false
Truthy(index) == index # None /\ index # 0

\* copy.deepcopy of a Polynomial: a new list of new terms; memo maps the
\* terms copied so far to their copies, as deepcopy's memo does
RECURSIVE CopyItems(_, _, _, _)
CopyItems(h, items, memo, copied) ==
    IF items = <<>> THEN New(h, ListObject(copied))
    ELSE LET t == Head(items)
         IN  IF t \in DOMAIN memo
             THEN CopyItems(h, Tail(items), memo, Append(copied, memo[t]))
             ELSE LET c == New(h, h[t])
                  IN  CopyItems(c.heap, Tail(items), memo @@ (t :> c.ref),
                                Append(copied, c.ref))

\* copy.copy in place of copy.deepcopy: the copy shares the list of terms
shallow_copy(h, l) == [heap |-> h, ref |-> l]

deepcopy(h, l) == CopyItems(h, h[l].items, <<>>, <<>>)

SetItem(h, l, index, ref) ==
    [h EXCEPT ![l].items = [@ EXCEPT ![index + 1] = ref]]

AppendItem(h, l, ref) == [h EXCEPT ![l].items = Append(@, ref)]

\* the loop of __add__ (minus = FALSE) and __sub__ (minus = TRUE) from the
\* k-th term of the other polynomial on; result is the list being built
RECURSIVE MergeLoop(_, _, _, _, _)

\* result.terms[term_index] += term (or -= term), r being what the term
\* operator gave, then the rest of the loop
Rebind(r, result, other, k, minus, term_index) ==
    IF r.raised THEN r
    ELSE MergeLoop(SetItem(r.heap, result, term_index, r.ref), result, other, k + 1, minus)

\* the branch of the loop taken when the exponent of term is in result
Found(h, result, other, k, minus, term, term_index) ==
    IF ~Truthy(term_index) THEN MergeLoop(h, result, other, k + 1, minus)
    ELSE IF minus
         THEN Rebind(Term_sub(h, h[result].items[term_index + 1], term),
                     result, other, k, minus, term_index)
         ELSE Rebind(Term_add(h, h[result].items[term_index + 1], term),
                     result, other, k, minus, term_index)

MergeTerm(h, result, other, k, minus, term) ==
    IF contains_exponent(h, result, h[term].exponent)
    THEN Found(h, result, other, k, minus, term,
               exponent_index(h, result, h[term].exponent))
    ELSE MergeLoop(AppendItem(h, result, term), result, other, k + 1, minus)

MergeLoop(h, result, other, k, minus) ==
    IF k > Len(h[other].items) THEN [heap |-> h, ref |-> result, raised |-> FALSE]
    ELSE MergeTerm(h, result, other, k, minus, h[other].items[k])

\* the loop applied to the copy c of the left operand
Merge(c, other, minus) == MergeLoop(c.heap, c.ref, other, 1, minus)

\* Polynomial.__add__
Polynomial_add(h, self, other) == Merge(deepcopy(h, self), other, FALSE)

\* Polynomial.__sub__
Polynomial_sub(h, self, other) == Merge(deepcopy(h, self), other, TRUE)

\* the two loops of __mul__, from the pair (i, j) on; result is the
\* accumulator, rebound by result += sub_polynomial to what __add__ returns
RECURSIVE MulLoop(_, _, _, _, _, _)

\* result += sub_polynomial gave sum
Accumulated(sum, self, other, i, j) ==
    IF sum.raised THEN sum ELSE MulLoop(sum.heap, sum.ref, self, other, i, j + 1)

\* sub_polynomial = Polynomial(terms=[term_result]); result += sub_polynomial
Accumulate(sub_polynomial, result, self, other, i, j) ==
    Accumulated(Polynomial_add(sub_polynomial.heap, result, sub_polynomial.ref),
                self, other, i, j)

\* term_result = first_term * second_term
Multiplied(term_result, result, self, other, i, j) ==
    IF term_result.raised THEN term_result
    ELSE Accumulate(New(term_result.heap, ListObject(<<term_result.ref>>)),
                    result, self, other, i, j)

MulLoop(h, result, self, other, i, j) ==
    IF i > Len(h[self].items) THEN [heap |-> h, ref |-> result, raised |-> FALSE]
    ELSE IF j > Len(h[other].items) THEN MulLoop(h, result, self, other, i + 1, 1)
    ELSE Multiplied(Term_mul(h, h[self].items[i], h[other].items[j]),
                    result, self, other, i, j)

\* Polynomial.__mul__: the accumulator starts as Polynomial(), whose terms
\* is the shared default list
Polynomial_mul(h, self, other) == MulLoop(h, DefaultTerms, self, other, 1, 1)

\* ------------------------------------------------------------ input texts
\* The texts typed at the prompt are concatenations of at most MaxPieces of
\* these pieces: four term tokens (signed, unsigned, sign and space), a
\* space, and three pieces that are no term token.
Pieces == <<
    <<"+", "1", ".", "0", "x", "^", "1">>,
    <<"-", "2", ".", "5", "x", "^", "0">>,
    <<"3", ".", "5", "0", "x", "^", "2">>,
    <<"+", " ", "2", ".", "0", "x", "^", "1", "1">>,
    <<" ">>,
    <<"1", "0", "0", "x", "^", "2">>,
    <<"1", "a", "2", "x", "^", "3">>,
    <<"a">> >>

TokenPieces == 1..4
SpacePiece  == Len(Pieces) - 3

RECURSIVE Concat(_)
Concat(ps) == IF ps = <<>> THEN <<>> ELSE Pieces[Head(ps)] \o Concat(Tail(ps))

Inputs == UNION {[1..k -> 1..Len(Pieces)] : k \in 0..MaxPieces}

\* the operands of the menu loop are parsed from term tokens joined by one
\* space: at most MaxTerms of three tokens, two of them with the same
\* exponent, which is a prefix of the exponent of the third
OperandTokens == <<
    <<"+", "2", ".", "0", "x", "^", "1">>,
    <<"-", "2", ".", "5", "x", "^", "1">>,
    <<"+", "0", ".", "5", "x", "^", "1", "1">> >>

\* the operands of the term operations are single tokens: four
\* coefficients and four exponents, two of them texts of the same integer
TermTokens == {sg \o nb \o <<"x", "^">> \o ex :
                 sg \in {<<"+">>, <<"-">>},
                 nb \in {<<"2", ".", "0">>, <<"0", ".", "5">>},
                 ex \in {<<"0">>, <<"1">>, <<"0", "1">>, <<"1", "1">>}}

RECURSIVE Join(_, _)
Join(tokens, ks) ==
    IF ks = <<>> THEN <<>>
    ELSE IF Len(ks) = 1 THEN tokens[ks[1]]
    ELSE tokens[ks[1]] \o <<" ">> \o Join(tokens, Tail(ks))

OperandTexts ==
    {Join(OperandTokens, ks) :
        ks \in UNION {[1..k -> 1..Len(OperandTokens)] : k \in 1..MaxTerms}}

\* ------------------------------------------------------------------ state
VARIABLES
    phase,              \* the position of the run
    typed,              \* the pieces of the text typed last
    expression,         \* main's expression: the text typed last
    parsed,             \* what parse_polynomial did with it
    printed,            \* the text printed last
    heap,               \* the live objects, by identity
    first_polynomial,   \* main's first_polynomial: the identity of a list
    second_polynomial,  \* main's second_polynomial
    result,             \* main's result and the command that made it
    entered             \* the heap as it was when the parsing phase ended

vars == <<phase, typed, expression, parsed, printed, heap, first_polynomial,
          second_polynomial, result, entered>>

NotParsed == [outcome |-> "none", message |-> "", residue |-> <<>>, terms |-> <<>>]

NoResult == [command |-> "", ref |-> None, raised |-> FALSE]

\* the heap before anything is parsed: the default list alone
EmptyHeap == (DefaultTerms :> ListObject(<<>>))

\* ------------------------------------------------- the parsing phase alone
InitParse ==
    /\ phase = "prompt"
    /\ typed = <<>>
    /\ expression = <<>>
    /\ parsed = NotParsed
    /\ printed = <<>>
    /\ heap = EmptyHeap
    /\ first_polynomial = None
    /\ second_polynomial = None
    /\ result = NoResult
    /\ entered = EmptyHeap

\* one prompt of main's parsing phase: a line is read and parsed
ReadPolynomial ==
    /\ phase = "prompt"
    /\ \E ps \in Inputs :
        /\ typed' = ps
        /\ expression' = Concat(ps)
        /\ parsed' = parse_polynomial(Concat(ps))
    /\ phase' = "read"
    /\ UNCHANGED <<printed, heap, first_polynomial, second_polynomial, result, entered>>

\* the parsed terms, wrapped in a Polynomial, are printed
PrintParsed ==
    /\ phase = "read"
    /\ parsed.outcome = "ok"
    /\ printed' = Polynomial_str(parsed.terms)
    /\ phase' = "printed"
    /\ UNCHANGED <<typed, expression, parsed, heap, first_polynomial,
                   second_polynomial, result, entered>>

NextParse == ReadPolynomial \/ PrintParsed

SpecParse == InitParse /\ [][NextParse]_vars

\* ------------------------------------------------------------ the menu loop
\* the state in which main leaves its parsing phase, the two texts typed
\* being t1 and t2
Entered(p1, p2, l1, l2) ==
    /\ p1.outcome = "ok"
    /\ p2.outcome = "ok"
    /\ heap = l2.heap
    /\ entered = l2.heap
    /\ first_polynomial = l1.ref
    /\ second_polynomial = l2.ref
    /\ typed = <<>>
    /\ parsed = p2
    /\ printed = <<>>
    /\ result = NoResult

SecondList(p1, p2, l1) == Entered(p1, p2, l1, NewTerms(l1.heap, p2.terms, <<>>))

FirstList(p1, p2) == SecondList(p1, p2, NewTerms(EmptyHeap, p1.terms, <<>>))

Parsed(t1, t2) ==
    /\ expression = t2
    /\ FirstList(parse_polynomial(t1), parse_polynomial(t2))

Init ==
    /\ phase = "menu"
    /\ \E t1 \in OperandTexts, t2 \in OperandTexts : Parsed(t1, t2)

Roots(ref) == {DefaultTerms, first_polynomial, second_polynomial, ref} \ {None}

\* what main does with the outcome r of an operator under the command c:
\* result is rebound and printed; an exception would end the program
Finish(c, r) ==
    IF r.raised
    THEN /\ phase' = "crashed"
         /\ heap' = Collect(r.heap, Roots(result.ref))
         /\ UNCHANGED <<result, printed>>
    ELSE /\ phase' = "menu"
         /\ result' = [command |-> c, ref |-> r.ref, raised |-> FALSE]
         /\ printed' = Polynomial_str(TermsOf(r.heap, r.ref))
         /\ heap' = Collect(r.heap, Roots(r.ref))

Frame == UNCHANGED <<typed, expression, parsed, first_polynomial,
                     second_polynomial, entered>>

\* command '+'
Add ==
    /\ phase = "menu"
    /\ Finish("+", Polynomial_add(heap, first_polynomial, second_polynomial))
    /\ Frame

\* command '-'
Subtract ==
    /\ phase = "menu"
    /\ Finish("-", Polynomial_sub(heap, first_polynomial, second_polynomial))
    /\ Frame

\* command '*'
Multiply ==
    /\ phase = "menu"
    /\ Finish("*", Polynomial_mul(heap, first_polynomial, second_polynomial))
    /\ Frame

\* any other command but 'x': 'Invalid command', then result is printed
\* again, which ends the program when no result is bound yet
Invalid ==
    /\ phase = "menu"
    /\ phase' = IF result.command = "" THEN "crashed" ELSE "menu"
    /\ UNCHANGED <<heap, result, printed>>
    /\ Frame

\* command 'x'
Exit ==
    /\ phase = "menu"
    /\ phase' = "done"
    /\ UNCHANGED <<heap, result, printed>>
    /\ Frame

Next == Add \/ Subtract \/ Multiply \/ Invalid \/ Exit

Spec == Init /\ [][Next]_vars

\* ------------------------------------------------------ the term operations
\* two single terms, a and b, as parse_polynomial returns them
InitTerm ==
    /\ phase = "terms"
    /\ \E t1 \in TermTokens, t2 \in TermTokens : Parsed(t1, t2)

term_a == heap[first_polynomial].items[1]
term_b == heap[second_polynomial].items[1]

Apply(c, r) ==
    /\ phase = "terms"
    /\ phase' = "applied"
    /\ result' = [command |-> c, ref |-> r.ref, raised |-> r.raised]
    /\ heap' = r.heap
    /\ UNCHANGED printed
    /\ Frame

\* a + b
TermAdd == Apply("+", Term_add(heap, term_a, term_b))

\* a - b
TermSubtract == Apply("-", Term_sub(heap, term_a, term_b))

\* a * b
TermMultiply == Apply("*", Term_mul(heap, term_a, term_b))

NextTerm == TermAdd \/ TermSubtract \/ TermMultiply

SpecTerm == InitTerm /\ [][NextTerm]_vars

\* ================================================================== claims
\* what the claims speak of
P0 == TermsOf(entered, first_polynomial)
Q0 == TermsOf(entered, second_polynomial)
R  == TermsOf(heap, result.ref)

Computed(c) == phase \in {"menu", "done"} /\ result.command = c

\* at most one term per exponent
Distinct(ts) ==
    \A i \in 1..Len(ts), j \in 1..Len(ts) : i # j => ts[i].exponent # ts[j].exponent

\* the sum of the coefficients ts has at exponent e
RECURSIVE CoefficientAt(_, _)
CoefficientAt(ts, e) ==
    IF ts = <<>> THEN ZeroFloat
    ELSE IF Head(ts).exponent = e
         THEN FAdd(Head(ts).number, CoefficientAt(Tail(ts), e))
         ELSE CoefficientAt(Tail(ts), e)

\* the merge the claims describe: every term of qs is combined with the
\* first term of the working sequence that has its exponent, at whatever
\* position, or appended when there is none
RECURSIVE ClaimedMerge(_, _, _)
ClaimedMerge(work, qs, minus) ==
    IF qs = <<>> THEN work
    ELSE LET t  == Head(qs)
             ks == {k \in 1..Len(work) : work[k].exponent = t.exponent}
             k0 == CHOOSE k \in ks : \A j \in ks : k <= j
         IN  IF ks = {} THEN ClaimedMerge(Append(work, t), Tail(qs), minus)
             ELSE ClaimedMerge(
                      [work EXCEPT ![k0].number =
                          IF minus THEN FSub(@, t.number) ELSE FAdd(@, t.number)],
                      Tail(qs), minus)

\* C1: add(P, Q) is the merge of Q's terms into a copy of P, a term at
\* position 0 included; so, for P and Q with distinct exponents each, the
\* result's coefficient at every exponent is P's plus Q's.
C1_AddMergesEveryPosition ==
    Computed("+") =>
        /\ R = ClaimedMerge(P0, Q0, FALSE)
        /\ (Distinct(P0) /\ Distinct(Q0)) =>
              \A t \in {P0[k] : k \in 1..Len(P0)} \cup {Q0[k] : k \in 1..Len(Q0)} :
                  CoefficientAt(R, t.exponent)
                      = FAdd(CoefficientAt(P0, t.exponent), CoefficientAt(Q0, t.exponent))

\* C7: subtract(P, Q) is the same merge with existing term - t for a match
\* at any position; unmatched terms of Q are appended unchanged, in order.
C7_SubtractMergesEveryPosition ==
    Computed("-") => R = ClaimedMerge(P0, Q0, TRUE)

\* C2: Term multiply never fails and gives the product of the coefficients
\* with the integer sum of the exponents.
C2_MultiplyAddsExponents ==
    (phase = "applied" /\ result.command = "*") =>
        /\ ~result.raised
        /\ heap[result.ref].number = FMul(entered[term_a].number, entered[term_b].number)
        /\ DigitsVal(heap[result.ref].exponent)
              = DigitsVal(entered[term_a].exponent) + DigitsVal(entered[term_b].exponent)

\* C10: Term add and Term subtract raise when the exponents (as stored)
\* differ, and otherwise give a new term with a's exponent and the sum (the
\* difference) of the coefficients; a and b are unchanged either way.
C10_TermAddSubtract ==
    (phase = "applied" /\ result.command \in {"+", "-"}) =>
        /\ \A id \in DOMAIN entered : id \in DOMAIN heap /\ heap[id] = entered[id]
        /\ result.raised <=> entered[term_a].exponent # entered[term_b].exponent
        /\ ~result.raised =>
              /\ result.ref \notin DOMAIN entered
              /\ heap[result.ref].kind = "term"
              /\ heap[result.ref].exponent = entered[term_a].exponent
              /\ heap[result.ref].number =
                    IF result.command = "+"
                    THEN FAdd(entered[term_a].number, entered[term_b].number)
                    ELSE FSub(entered[term_a].number, entered[term_b].number)

\* C10 happens: two terms of the same exponent have been added, and the new
\* term holds a negative sum with a fraction part
C10_Witness ==
    /\ phase = "applied"
    /\ result.command = "+"
    /\ ~result.raised
    /\ heap[result.ref].number.d > 1
    /\ heap[result.ref].number.n < 0

\* C5 as stated: the result of add, subtract or multiply has at most one
\* term per exponent, whatever the operands.
C5_ResultDistinct ==
    (phase \in {"menu", "done"} /\ result.command # "") => Distinct(R)

\* C5 as amended: the result of multiply has at most one term per exponent
\* (compared as stored), and so has the result of add or subtract whenever
\* the left operand has.
C5_ResultDistinctWhenLeftIs ==
    /\ Computed("*") => Distinct(R)
    /\ (Computed("+") \/ Computed("-")) => (Distinct(P0) => Distinct(R))

\* C5 happens: the right operand repeats an exponent the left one has not,
\* and add has merged the repetition into the term it appended
C5_Witness ==
    /\ Computed("+")
    /\ Distinct(P0)
    /\ ~Distinct(Q0)
    /\ Len(R) > Len(P0)
    /\ Len(R) < Len(P0) + Len(Q0)

\* C6: add, subtract and multiply leave their operands as they were when
\* the menu loop was entered, lists and terms, and return a new Polynomial.
C6_OperandsUnchanged ==
    /\ \A id \in DOMAIN entered : id \in DOMAIN heap /\ heap[id] = entered[id]
    /\ result.command # "" => result.ref \notin DOMAIN entered

\* C6 happens: after a subtraction the result holds a term object of the
\* second operand (appended, not copied), and the operand is as it was
C6_Witness ==
    /\ Computed("-")
    /\ \E k \in 1..Len(heap[result.ref].items) :
          \E j \in 1..Len(heap[second_polynomial].items) :
              heap[result.ref].items[k] = heap[second_polynomial].items[j]
    /\ Len(heap[result.ref].items) > Len(heap[first_polynomial].items)

\* the product of the i-th term of P and the j-th term of Q, as Term
\* multiply gives it
ProductValue(r) == [number |-> r.heap[r.ref].number, exponent |-> r.heap[r.ref].exponent]

PairProduct(i, j) ==
    ProductValue(Term_mul(entered, entered[first_polynomial].items[i],
                          entered[second_polynomial].items[j]))

\* the pairwise products, P's terms in the outer loop and Q's in the inner
PairProducts ==
    [n \in 1..(Len(P0) * Len(Q0)) |->
        PairProduct(((n - 1) \div Len(Q0)) + 1, ((n - 1) % Len(Q0)) + 1)]

\* C8: multiply(P, Q) holds, for every exponent a pairwise product has,
\* exactly one term, whose coefficient is the sum of the coefficients of
\* all the pairwise products with that exponent, and no other term.
C8_MultiplyDistributes ==
    Computed("*") =>
        /\ \A n \in 1..Len(PairProducts) :
              /\ Cardinality({k \in 1..Len(R) :
                                 R[k].exponent = PairProducts[n].exponent}) = 1
              /\ CoefficientAt(R, PairProducts[n].exponent)
                    = CoefficientAt(PairProducts, PairProducts[n].exponent)
        /\ \A k \in 1..Len(R) :
              \E n \in 1..Len(PairProducts) : R[k].exponent = PairProducts[n].exponent

\* ---- the term tokens of the grammar: optional sign, optional single
\* space, digits, a point, digits, x^, digits
IsTermToken(s, i, j) ==
    LET sl == IF IsSign(At(s, i)) THEN 1 ELSE 0
        wl == IF IsSpace(At(s, i + sl)) THEN 1 ELSE 0
        p  == i + sl + wl
        d  == p + DigitRun(s, p)
        q  == d + 1 + DigitRun(s, d + 1)
    IN  /\ d > p
        /\ At(s, d) = "."
        /\ q > d + 1
        /\ At(s, q) = "x"
        /\ At(s, q + 1) = "^"
        /\ j > q + 2
        /\ j <= q + 2 + DigitRun(s, q + 2)

ContainsToken(s) == \E i \in 1..Len(s), j \in 1..(Len(s) + 1) : IsTermToken(s, i, j)

\* s is made of term tokens and whitespace only, from position i on
RECURSIVE OnlyTokens(_, _)
OnlyTokens(s, i) ==
    \/ i > Len(s)
    \/ IsSpace(At(s, i)) /\ OnlyTokens(s, i + 1)
    \/ \E j \in (i + 1)..(Len(s) + 1) : IsTermToken(s, i, j) /\ OnlyTokens(s, j)

\* the terms the token pieces denote
TokenTerms == <<
    [number |-> [n |-> 1, d |-> 1],  exponent |-> <<"1">>],
    [number |-> [n |-> -5, d |-> 2], exponent |-> <<"0">>],
    [number |-> [n |-> 7, d |-> 2],  exponent |-> <<"2">>],
    [number |-> [n |-> 2, d |-> 1],  exponent |-> <<"1", "1">>] >>

SignedPieces == {k \in TokenPieces : IsSign(Pieces[k][1])}

\* the typed pieces are term tokens, adjacent (a later token then starting
\* with its sign) or separated by whitespace
TokenSequence(ps) ==
    /\ ps # <<>>
    /\ ps[1] \in TokenPieces
    /\ ps[Len(ps)] \in TokenPieces
    /\ \A k \in 1..Len(ps) : ps[k] \in TokenPieces \cup {SpacePiece}
    /\ \A k \in 2..Len(ps) :
          (ps[k] \in TokenPieces /\ ps[k - 1] \in TokenPieces) => ps[k] \in SignedPieces

RECURSIVE TermsTyped(_)
TermsTyped(ps) ==
    IF ps = <<>> THEN <<>>
    ELSE IF Head(ps) \in TokenPieces THEN <<TokenTerms[Head(ps)]>> \o TermsTyped(Tail(ps))
    ELSE TermsTyped(Tail(ps))

\* C3: a text of k term tokens, adjacent or separated by whitespace, parses
\* into exactly the k terms of its tokens, in order.
C3_EveryTokenParsed ==
    (phase = "read" /\ TokenSequence(typed)) =>
        /\ parsed.outcome = "ok"
        /\ parsed.terms = TermsTyped(typed)

\* C4: a text that is not made of term tokens and whitespace only, and the
\* empty text, fail with a ParseError: no terms found when it holds no term
\* token, unrecognized residue otherwise; never with another error, and
\* never accepted.
C4_MalformedIsParseError ==
    (phase = "read" /\ (expression = <<>> \/ ~OnlyTokens(expression, 1))) =>
        /\ parsed.outcome = "ParseError"
        /\ parsed.message =
              IF ContainsToken(expression) THEN "Unrecognized" ELSE "No terms found"

\* C9: a term is rendered as its sign prefix, its coefficient, x^ and its
\* exponent, nothing between; so a single term token, parsed and rendered,
\* reads back as the same coefficient and exponent.
C9_RenderRoundTrip ==
    (phase = "printed" /\ Len(typed) = 1 /\ typed[1] \in TokenPieces) =>
        /\ printed = (IF parsed.terms[1].number.n >= 0 THEN <<"+">> ELSE <<>>)
                        \o FloatStr(parsed.terms[1].number)
                        \o <<"x", "^">> \o parsed.terms[1].exponent
        /\ parse_polynomial(printed).outcome = "ok"
        /\ parse_polynomial(printed).terms = parsed.terms

====
